---- MODULE Spec2Model ----
(***************************************************************************)
(* Water-quality backend (src/Backend/backend.py) and dashboard client     *)
(* (src/Frontend/App.py).                                                  *)
(*                                                                         *)
(* Numbers.  The program computes in IEEE doubles; the model uses exact    *)
(* integers for drawn and measured values and exact rationals              *)
(* [num, den] for the trend and the forecast (den = 0 stands for NaN, the  *)
(* value numpy gives for the mean of nothing).                             *)
(*                                                                         *)
(* Libraries.  pandas, numpy, starlette, requests and streamlit are        *)
(* modelled by what the calls in the source do:                            *)
(*   - Series.iloc[-1] on an empty series raises IndexError;               *)
(*   - Series.diff().dropna() is the sequence of consecutive differences,  *)
(*     np.mean of an empty one is NaN;                                     *)
(*   - DataFrame.to_dict(orient='records') keeps the date column as        *)
(*     pandas Timestamp objects;                                           *)
(*   - starlette's JSONResponse(content=...) renders in its constructor    *)
(*     with json.dumps(content, allow_nan=False): a Timestamp raises       *)
(*     TypeError, a NaN raises ValueError;                                 *)
(*   - Response.raise_for_status() raises HTTPError (a RequestException)   *)
(*     for a 4xx/5xx status; st.stop() ends the script run.                *)
(***************************************************************************)
EXTENDS Integers, Sequences, FiniteSets, TLC

VARIABLES
    pc,               \* position of the /data request in backend.py
    historical_data,  \* backend.py:25 (records, ascending by date)
    forecast_data,    \* backend.py:37
    latest_fecal,     \* backend.py:42
    image,            \* backend.py:43 (50 x 50 x 3 array)
    image_base64,     \* backend.py:54
    data,             \* the dict returned by generate_data (backend.py:56)
    exc,              \* the exception last raised in the request
    log,              \* records written through logger.error
    response,         \* the JSONResponse the endpoint returns
    rng,              \* numpy's process-wide generator: draw calls made so far
    req,              \* concurrent /data requests: position and local draws
    ui                \* one run of the dashboard script App.py

vars == <<pc, historical_data, forecast_data, latest_fecal, image,
          image_base64, data, exc, log, response, rng, req, ui>>

backendVars == <<pc, historical_data, forecast_data, latest_fecal, image,
                 image_base64, data, exc, log, response>>

(***************************************************************************)
(* Program constants                                                       *)
(***************************************************************************)
Periods == 30
ForecastDays == 3
ImageSize == 50
ClipLow == 100
ClipHigh == 1000
MediumFrom == 400
HighFrom == 800
CriticalLevel == 800
DefaultThreshold == 400

(***************************************************************************)
(* Bounds of the model                                                     *)
(***************************************************************************)
MaxLen == 3          \* longest history handed to the forecasting step alone
NumRequests == 2     \* concurrent /data requests
LastDay == 101       \* latest "today" (days are counted from an epoch)

\* Values of the random draws.  lognormal(3.0, 0.4) is positive, exponential(5)
\* is non-negative; the rainfall values are even so that rainfall * 0.5 is exact.
LognormalDraws == {20, 399, 400, 800, 1200}
RainfallDraws == {0, 2, 40}
pHDraws == {7}
DODraws == {8}
SplitAt == {1, Periods - 1}
TodayChoices == (LastDay - 1)..LastDay
FecalInputs == {100, 250, 400, 550, 850}
FaultMessages == {"MemoryError"}

(***************************************************************************)
(* Values                                                                  *)
(***************************************************************************)
Timestamp(day) == [type |-> "Timestamp", day |-> day]

NoExc == [type |-> "none", msg |-> ""]

NoResponse == [status |-> 0, body |-> [pending |-> TRUE]]

NoData == [pending |-> TRUE]

Rat(n, d) == [num |-> n, den |-> d]

NaN == Rat(0, 0)

IsNaN(q) == q.den = 0

\* q + k for an integer k; NaN propagates
RatPlusInt(k, q) == IF IsNaN(q) THEN NaN ELSE Rat(k * q.den + q.num, q.den)

\* q * k for an integer k; NaN propagates
RatTimesInt(q, k) == IF IsNaN(q) THEN NaN ELSE Rat(q.num * k, q.den)

RECURSIVE SeqSum(_)
SeqSum(s) == IF s = << >> THEN 0 ELSE Head(s) + SeqSum(Tail(s))

\* numpy.ndarray.clip(lo, hi)
Clip(x, lo, hi) == IF x < lo THEN lo ELSE IF x > hi THEN hi ELSE x

\* rainfall * 0.5 (exact on the even values drawn)
Half(x) == x \div 2

\* A vector of Periods draws: a on the first k days, b afterwards.
StepVector(a, b, k) == [i \in 1..Periods |-> IF i <= k THEN a ELSE b]

DrawVectors(values) ==
    {StepVector(a, b, k) : a \in values, b \in values, k \in SplitAt}

(***************************************************************************)
(* generate_data, lines 19-31: the series                                  *)
(***************************************************************************)
\* pd.date_range(end=today, periods=n): n consecutive days ending today
DateRange(today, n) == [i \in 1..n |-> Timestamp(today - (n - i))]

\* the clamp without its lower bound
FecalColiformNoFloor(lognormal, rainfall) ==
    [i \in DOMAIN lognormal |->
        (IF lognormal[i] > ClipHigh THEN ClipHigh ELSE lognormal[i])
            + Half(rainfall[i])]

\* np.random.lognormal(...).clip(100, 1000) + (rainfall * 0.5)
FecalColiform(lognormal, rainfall) ==
    [i \in DOMAIN lognormal |->
        Clip(lognormal[i], ClipLow, ClipHigh) + Half(rainfall[i])]

DataFrame(dates, pH, DO, rainfall, fecal) ==
    [i \in DOMAIN dates |->
        [date |-> dates[i], pH |-> pH[i], DO |-> DO[i],
         rainfall |-> rainfall[i], fecal_coliform |-> fecal[i]]]

(***************************************************************************)
(* generate_data, lines 33-40: the forecast                                *)
(***************************************************************************)
\* Series.diff().dropna()
Diffs(h) == [i \in 1..(Len(h) - 1) |->
                h[i + 1].fecal_coliform - h[i].fecal_coliform]

\* np.mean(...)
Mean(s) == IF s = << >> THEN NaN ELSE Rat(SeqSum(s), Len(s))

Trend(h) == Mean(Diffs(h))

\* the horizon counted from 0: last_fecal + trend * i for i in range(3)
ForecastFecalFromZero(last, trend, i) ==
    RatPlusInt(last, RatTimesInt(trend, i - 1))

\* last_fecal + trend * (i + 1) for i in range(3); i here is i + 1 there
ForecastFecal(last, trend, i) == RatPlusInt(last, RatTimesInt(trend, i))

ForecastFrame(h) ==
    [i \in 1..ForecastDays |->
        [date |-> Timestamp(h[Len(h)].date.day + i),
         forecast_fecal |->
            ForecastFecal(h[Len(h)].fecal_coliform, Trend(h), i)]]

(***************************************************************************)
(* generate_data, lines 42-54: the image                                   *)
(***************************************************************************)
\* np.zeros((50, 50, 3))
Zeros == [y \in 1..ImageSize |-> [x \in 1..ImageSize |-> [c \in 0..2 |-> 0]]]

\* image[:, :, c] = 1.0
Paint(img, c) ==
    [y \in DOMAIN img |-> [x \in DOMAIN img[y] |-> [img[y][x] EXCEPT ![c] = 1]]]

\* the bands closed on the wrong side
SeverityImageInclusive(value) ==
    IF value <= MediumFrom THEN Paint(Zeros, 1)
    ELSE IF value <= HighFrom THEN Paint(Paint(Zeros, 0), 1)
    ELSE Paint(Zeros, 0)

SeverityImage(value) ==
    IF value < MediumFrom THEN Paint(Zeros, 1)
    ELSE IF value < HighFrom THEN Paint(Paint(Zeros, 0), 1)
    ELSE Paint(Zeros, 0)

\* imsave(buffer, image, format='png'): 8-bit RGBA, opaque
PngEncode(img) ==
    [format |-> "png",
     rgba |-> [y \in DOMAIN img |-> [x \in DOMAIN img[y] |->
                 [c \in 0..3 |-> IF c = 3 THEN 255 ELSE img[y][x][c] * 255]]]]

\* base64.b64encode(...).decode('utf-8')
Base64Encode(bytes) == [encoding |-> "base64", charset |-> "utf-8", of |-> bytes]

\* base64.b64decode and imread on the consumer's side: RGB channels in 0..1
Base64Decode(text) == text.of

PngDecode(png) ==
    [y \in DOMAIN png.rgba |-> [x \in DOMAIN png.rgba[y] |->
        [c \in 0..2 |-> png.rgba[y][x][c] \div 255]]]

(***************************************************************************)
(* JSONResponse(content=...): json.dumps(content, allow_nan=False)         *)
(***************************************************************************)
HasTimestamp(content) ==
    \/ \E i \in DOMAIN content.historical_data :
          content.historical_data[i].date.type = "Timestamp"
    \/ \E i \in DOMAIN content.forecast_data :
          content.forecast_data[i].date.type = "Timestamp"

HasNaN(content) ==
    \E i \in DOMAIN content.forecast_data :
        IsNaN(content.forecast_data[i].forecast_fecal)

JsonDumpsError(content) ==
    IF HasTimestamp(content)
    THEN [type |-> "TypeError",
          msg |-> "Object of type Timestamp is not JSON serializable"]
    ELSE IF HasNaN(content)
    THEN [type |-> "ValueError",
          msg |-> "Out of range float values are not JSON compliant"]
    ELSE NoExc

(***************************************************************************)
(* The /data request, one step per block of generate_data and of           *)
(* get_water_quality_data                                                  *)
(***************************************************************************)
InGenerateData == {"series", "forecast", "classify", "encode", "return"}

\* GET /data arrives: the endpoint enters its try block and calls generate_data
ReceiveRequest ==
    /\ pc = "idle"
    /\ pc' = "series"
    /\ UNCHANGED <<historical_data, forecast_data, latest_fecal, image,
                   image_base64, data, exc, log, response, rng, req, ui>>

\* lines 19-31
GenerateSeries ==
    /\ pc = "series"
    /\ \E today \in TodayChoices,
          pH \in DrawVectors(pHDraws), DO \in DrawVectors(DODraws),
          rainfall \in DrawVectors(RainfallDraws),
          lognormal \in DrawVectors(LognormalDraws) :
          historical_data' =
              DataFrame(DateRange(today, Periods), pH, DO, rainfall,
                        FecalColiform(lognormal, rainfall))
    /\ pc' = "forecast"
    /\ UNCHANGED <<forecast_data, latest_fecal, image, image_base64, data,
                   exc, log, response, rng, req, ui>>

\* lines 33-40
Forecast ==
    /\ pc = "forecast"
    /\ IF historical_data = << >>
       THEN /\ exc' = [type |-> "IndexError",
                       msg |-> "single positional indexer is out-of-bounds"]
            /\ pc' = "generate_except"
            /\ UNCHANGED forecast_data
       ELSE /\ forecast_data' = ForecastFrame(historical_data)
            /\ pc' = "classify"
            /\ UNCHANGED exc
    /\ UNCHANGED <<historical_data, latest_fecal, image, image_base64, data,
                   log, response, rng, req, ui>>

\* lines 42-50
Classify ==
    /\ pc = "classify"
    /\ IF historical_data = << >>
       THEN /\ exc' = [type |-> "IndexError",
                       msg |-> "single positional indexer is out-of-bounds"]
            /\ pc' = "generate_except"
            /\ UNCHANGED <<latest_fecal, image>>
       ELSE /\ latest_fecal' =
                   historical_data[Len(historical_data)].fecal_coliform
            /\ image' = SeverityImage(latest_fecal')
            /\ pc' = "encode"
            /\ UNCHANGED exc
    /\ UNCHANGED <<historical_data, forecast_data, image_base64, data,
                   log, response, rng, req, ui>>

\* lines 52-54
EncodeImage ==
    /\ pc = "encode"
    /\ image_base64' = Base64Encode(PngEncode(image))
    /\ pc' = "return"
    /\ UNCHANGED <<historical_data, forecast_data, latest_fecal, image, data,
                   exc, log, response, rng, req, ui>>

\* lines 56-61
ReturnPayload ==
    /\ pc = "return"
    /\ data' = [historical_data |-> historical_data,
                forecast_data |-> forecast_data,
                satellite_image_base64 |-> image_base64,
                latest_fecal |-> latest_fecal]
    /\ pc' = "respond"
    /\ UNCHANGED <<historical_data, forecast_data, latest_fecal, image,
                   image_base64, exc, log, response, rng, req, ui>>

\* a library call inside generate_data's try block raises
LibraryFault ==
    /\ pc \in InGenerateData
    /\ \E m \in FaultMessages : exc' = [type |-> "Exception", msg |-> m]
    /\ pc' = "generate_except"
    /\ UNCHANGED <<historical_data, forecast_data, latest_fecal, image,
                   image_base64, data, log, response, rng, req, ui>>

\* lines 62-64: log and re-raise into the endpoint's try block
GenerateDataExcept ==
    /\ pc = "generate_except"
    /\ log' = Append(log, <<"Error in generate_data: ", exc.msg>>)
    /\ pc' = "endpoint_except"
    /\ UNCHANGED <<historical_data, forecast_data, latest_fecal, image,
                   image_base64, data, exc, response, rng, req, ui>>

\* line 70: return JSONResponse(content=data)
Respond ==
    /\ pc = "respond"
    /\ IF JsonDumpsError(data) = NoExc
       THEN /\ response' = [status |-> 200, body |-> data]
            /\ pc' = "done"
            /\ UNCHANGED exc
       ELSE /\ exc' = JsonDumpsError(data)
            /\ pc' = "endpoint_except"
            /\ UNCHANGED response
    /\ UNCHANGED <<historical_data, forecast_data, latest_fecal, image,
                   image_base64, data, log, rng, req, ui>>

\* the handler logs and re-raises, as generate_data's does
EndpointExceptReraise ==
    /\ pc = "endpoint_except"
    /\ log' = Append(log, <<"Error in /data endpoint: ", exc.msg>>)
    /\ pc' = "unhandled"
    /\ UNCHANGED <<historical_data, forecast_data, latest_fecal, image,
                   image_base64, data, exc, response, rng, req, ui>>

\* lines 71-76
EndpointExcept ==
    /\ pc = "endpoint_except"
    /\ log' = Append(log, <<"Error in /data endpoint: ", exc.msg>>)
    /\ response' = [status |-> 500,
                    body |-> [error |-> <<"Internal Server Error: ", exc.msg>>]]
    /\ pc' = "done"
    /\ UNCHANGED <<historical_data, forecast_data, latest_fecal, image,
                   image_base64, data, exc, rng, req, ui>>

NoRequests == [r \in 1..NumRequests |-> [pc |-> "off", draws |-> << >>]]

NoUi == [pc |-> "off"]

Init ==
    /\ pc = "idle"
    /\ historical_data = << >>
    /\ forecast_data = << >>
    /\ latest_fecal = 0
    /\ image = << >>
    /\ image_base64 = Base64Encode([format |-> "none", rgba |-> << >>])
    /\ data = NoData
    /\ exc = NoExc
    /\ log = << >>
    /\ response = NoResponse
    /\ rng = 0
    /\ req = NoRequests
    /\ ui = NoUi

Next ==
    \/ ReceiveRequest
    \/ GenerateSeries
    \/ Forecast
    \/ Classify
    \/ EncodeImage
    \/ ReturnPayload
    \/ LibraryFault
    \/ GenerateDataExcept
    \/ Respond
    \/ EndpointExcept

Spec == Init /\ [][Next]_vars

(***************************************************************************)
(* The forecasting step on its own: lines 33-61 run on a history of any    *)
(* length 0..MaxLen instead of the 30 generated days                       *)
(***************************************************************************)
History(today, fecal) ==
    DataFrame(DateRange(today, Len(fecal)),
              [i \in DOMAIN fecal |-> 7], [i \in DOMAIN fecal |-> 8],
              [i \in DOMAIN fecal |-> 0], fecal)

InitForecast ==
    /\ pc = "forecast"
    /\ \E n \in 0..MaxLen : \E fecal \in [1..n -> FecalInputs] :
          historical_data = History(LastDay, fecal)
    /\ forecast_data = << >>
    /\ latest_fecal = 0
    /\ image = << >>
    /\ image_base64 = Base64Encode([format |-> "none", rgba |-> << >>])
    /\ data = NoData
    /\ exc = NoExc
    /\ log = << >>
    /\ response = NoResponse
    /\ rng = 0
    /\ req = NoRequests
    /\ ui = NoUi

NextForecast ==
    \/ Forecast
    \/ Classify
    \/ EncodeImage
    \/ ReturnPayload
    \/ GenerateDataExcept
    \/ Respond
    \/ EndpointExcept

SpecForecast == InitForecast /\ [][NextForecast]_vars

(***************************************************************************)
(* Concurrent requests.  FastAPI runs a plain def endpoint in a thread     *)
(* pool, so two /data requests interleave between statements.  The four    *)
(* np.random calls of lines 20-23 all use numpy's process-wide generator;  *)
(* each call takes the generator's lock, reads its state and advances it.  *)
(* rng counts the calls made since the process started: the block of 30    *)
(* values a call returns is determined by the seed and by this position.   *)
(***************************************************************************)
DrawCalls == <<"pH", "DO", "rainfall", "lognormal">>

ConcReceive(r) ==
    /\ req[r].pc = "idle"
    /\ req' = [req EXCEPT ![r].pc = "drawing"]
    /\ UNCHANGED <<backendVars, rng, ui>>

\* every request draws from a generator of its own, seeded alike
ConcDrawReseeded(r) ==
    /\ req[r].pc = "drawing"
    /\ req' = [req EXCEPT
                  ![r].draws = Append(@, Len(req[r].draws)),
                  ![r].pc = IF Len(req[r].draws) + 1 = Len(DrawCalls)
                            THEN "built" ELSE "drawing"]
    /\ rng' = rng + 1
    /\ UNCHANGED <<backendVars, ui>>

\* the next of np.random.normal / normal / exponential / lognormal
ConcDraw(r) ==
    /\ req[r].pc = "drawing"
    /\ req' = [req EXCEPT
                  ![r].draws = Append(@, rng),
                  ![r].pc = IF Len(req[r].draws) + 1 = Len(DrawCalls)
                            THEN "built" ELSE "drawing"]
    /\ rng' = rng + 1
    /\ UNCHANGED <<backendVars, ui>>

\* lines 25-70: everything after the draws uses the request's locals only
ConcRespond(r) ==
    /\ req[r].pc = "built"
    /\ req' = [req EXCEPT ![r].pc = "done"]
    /\ UNCHANGED <<backendVars, rng, ui>>

InitConc ==
    /\ pc = "off"
    /\ historical_data = << >>
    /\ forecast_data = << >>
    /\ latest_fecal = 0
    /\ image = << >>
    /\ image_base64 = Base64Encode([format |-> "none", rgba |-> << >>])
    /\ data = NoData
    /\ exc = NoExc
    /\ log = << >>
    /\ response = NoResponse
    /\ rng = 0
    /\ req = [r \in 1..NumRequests |-> [pc |-> "idle", draws |-> << >>]]
    /\ ui = NoUi

NextConc ==
    \/ \E r \in 1..NumRequests : ConcReceive(r)
    \/ \E r \in 1..NumRequests : ConcDraw(r)
    \/ \E r \in 1..NumRequests : ConcRespond(r)

SpecConc == InitConc /\ [][NextConc]_vars

(***************************************************************************)
(* The dashboard script App.py: one run, top to bottom                     *)
(***************************************************************************)
Thresholds == {0, 390, 400, 800, 900}
ForecastInputs == {390, 410, 790, 800, 900}
LatestInputs == {100, 800}
ErrorStatuses == {404, 500}

IsoDate(day) == [type |-> "str", day |-> day]

\* a body as the /data contract describes it
PayloadBody(latest, forecast) ==
    [historical_data |->
        <<[date |-> IsoDate(LastDay), pH |-> 7, DO |-> 8, rainfall |-> 0,
           fecal_coliform |-> latest]>>,
     forecast_data |->
        [i \in DOMAIN forecast |->
            [date |-> IsoDate(LastDay + i), forecast_fecal |-> forecast[i]]],
     satellite_image_base64 |-> Base64Encode(PngEncode(SeverityImage(latest))),
     latest_fecal |-> latest]

ErrorBody == [error |-> <<"Internal Server Error: ", "fault">>]

\* what requests.get(API_URL) can come back with
FetchResults ==
    {[kind |-> "connection_error", status |-> 0, body |-> ErrorBody]}
    \cup {[kind |-> "response", status |-> st, body |-> ErrorBody] :
             st \in ErrorStatuses \cup {200}}
    \cup {[kind |-> "response", status |-> 200, body |-> PayloadBody(l, f)] :
             l \in LatestInputs, f \in [1..ForecastDays -> ForecastInputs]}

\* make_river_map, line 23
MapColor(fecal_value) ==
    IF fecal_value < MediumFrom THEN "green"
    ELSE IF fecal_value < HighFrom THEN "yellow" ELSE "red"

WarningAlert(threshold) ==
    <<"Warning: Forecasted fecal coliform above {threshold} CFU/100mL.", threshold>>

CriticalAlert == <<"Critical: High pollution risk detected. Take action.">>

\* both comparisons inclusive
check_alerts_inclusive(forecast, threshold) ==
    LET warning == IF \E i \in DOMAIN forecast :
                         forecast[i].forecast_fecal >= threshold
                   THEN <<WarningAlert(threshold)>> ELSE << >>
        critical == IF \E i \in DOMAIN forecast :
                          forecast[i].forecast_fecal >= CriticalLevel
                    THEN <<CriticalAlert>> ELSE << >>
    IN  warning \o critical

\* the critical check made against the MEDIUM boundary
check_alerts_medium_critical(forecast, threshold) ==
    LET warning == IF \E i \in DOMAIN forecast :
                         forecast[i].forecast_fecal > threshold
                   THEN <<WarningAlert(threshold)>> ELSE << >>
        critical == IF \E i \in DOMAIN forecast :
                          forecast[i].forecast_fecal > MediumFrom
                    THEN <<CriticalAlert>> ELSE << >>
    IN  warning \o critical

\* check_alerts, lines 33-39
check_alerts(forecast, threshold) ==
    LET warning == IF \E i \in DOMAIN forecast :
                         forecast[i].forecast_fecal > threshold
                   THEN <<WarningAlert(threshold)>> ELSE << >>
        critical == IF \E i \in DOMAIN forecast :
                          forecast[i].forecast_fecal > CriticalLevel
                    THEN <<CriticalAlert>> ELSE << >>
    IN  warning \o critical

Show(what) == Append(ui.shown, what)

\* lines 42-49
Sidebar ==
    /\ ui.pc = "sidebar"
    /\ \E t \in Thresholds :
          ui' = [ui EXCEPT !.threshold = t, !.shown = Show("sidebar"),
                           !.pc = "fetch"]
    /\ UNCHANGED <<backendVars, rng, req>>

\* lines 52-70: the try block
Fetch ==
    /\ ui.pc = "fetch"
    /\ \E got \in FetchResults :
          IF got.kind = "connection_error"
          THEN \* requests.get raises ConnectionError
               ui' = [ui EXCEPT !.fetch = "ConnectionError",
                                !.pc = "fetch_except"]
          ELSE IF got.status >= 400
          THEN \* raise_for_status raises HTTPError
               ui' = [ui EXCEPT !.fetch = "HTTPError", !.status = got.status,
                                !.pc = "fetch_except"]
          ELSE IF "historical_data" \notin DOMAIN got.body
          THEN \* data["historical_data"] raises KeyError, which is not a
               \* RequestException: the run ends with the exception
               ui' = [ui EXCEPT !.fetch = "KeyError", !.status = got.status,
                                !.pc = "crashed"]
          ELSE ui' = [ui EXCEPT
                        !.fetch = "ok", !.status = got.status,
                        !.historical_data = got.body.historical_data,
                        !.forecast_data = got.body.forecast_data,
                        !.satellite_image =
                            PngDecode(Base64Decode(got.body.satellite_image_base64)),
                        !.latest_fecal = got.body.latest_fecal,
                        !.pc = "title"]
    /\ UNCHANGED <<backendVars, rng, req>>

\* the error is reported but the run is not stopped
FetchExceptNoStop ==
    /\ ui.pc = "fetch_except"
    /\ ui' = [ui EXCEPT !.shown = Show("error"), !.pc = "title"]
    /\ UNCHANGED <<backendVars, rng, req>>

\* lines 71-73: st.error(...) then st.stop()
FetchExcept ==
    /\ ui.pc = "fetch_except"
    /\ ui' = [ui EXCEPT !.shown = Show("error"), !.pc = "stopped"]
    /\ UNCHANGED <<backendVars, rng, req>>

\* line 76
Title ==
    /\ ui.pc = "title"
    /\ ui' = [ui EXCEPT !.shown = Show("title"), !.pc = "overview"]
    /\ UNCHANGED <<backendVars, rng, req>>

\* lines 82-91
Overview ==
    /\ ui.pc = "overview"
    /\ ui' = [ui EXCEPT !.map_color = MapColor(ui.latest_fecal),
                        !.shown = Show("map") \o <<"satellite">>,
                        !.pc = "details"]
    /\ UNCHANGED <<backendVars, rng, req>>

\* lines 95-125
Details ==
    /\ ui.pc = "details"
    /\ ui' = [ui EXCEPT
                !.shown = Show("measurements") \o <<"forecast", "trend">>,
                !.pc = "alerts"]
    /\ UNCHANGED <<backendVars, rng, req>>

\* lines 128-134
Alerts ==
    /\ ui.pc = "alerts"
    /\ LET alerts == check_alerts(ui.forecast_data, ui.threshold)
       IN  ui' = [ui EXCEPT
                    !.alerts = alerts,
                    !.shown = Show(IF alerts # << >> THEN "alerts"
                                   ELSE "no_alerts"),
                    !.pc = "footer"]
    /\ UNCHANGED <<backendVars, rng, req>>

\* lines 137-138
Footer ==
    /\ ui.pc = "footer"
    /\ ui' = [ui EXCEPT !.shown = Show("footer"), !.pc = "done"]
    /\ UNCHANGED <<backendVars, rng, req>>

InitClient ==
    /\ pc = "off"
    /\ historical_data = << >>
    /\ forecast_data = << >>
    /\ latest_fecal = 0
    /\ image = << >>
    /\ image_base64 = Base64Encode([format |-> "none", rgba |-> << >>])
    /\ data = NoData
    /\ exc = NoExc
    /\ log = << >>
    /\ response = NoResponse
    /\ rng = 0
    /\ req = NoRequests
    /\ ui = [pc |-> "sidebar", threshold |-> DefaultThreshold,
             fetch |-> "none", status |-> 0,
             historical_data |-> << >>, forecast_data |-> << >>,
             satellite_image |-> << >>, latest_fecal |-> 0,
             map_color |-> "none", alerts |-> << >>, shown |-> << >>]

NextClient ==
    \/ Sidebar
    \/ Fetch
    \/ FetchExcept
    \/ Title
    \/ Overview
    \/ Details
    \/ Alerts
    \/ Footer

SpecClient == InitClient /\ [][NextClient]_vars

(***************************************************************************)
(* Properties                                                              *)
(***************************************************************************)
Range(s) == {s[i] : i \in DOMAIN s}

Colour(r, g, b) == [c \in 0..2 |-> IF c = 0 THEN r ELSE IF c = 1 THEN g ELSE b]

BandColour(value) ==
    IF value < 400 THEN Colour(0, 1, 0)
    ELSE IF value < 800 THEN Colour(1, 1, 0)
    ELSE Colour(1, 0, 0)

Uniform(img, colour) ==
    /\ DOMAIN img = 1..50
    /\ \A y \in 1..50 :
          /\ DOMAIN img[y] = 1..50
          /\ \A x \in 1..50 : img[y][x] = colour

\* C1: once the latest value is classified, it is the last observation's
\* fecal_coliform and every pixel of the 50x50 image has the colour of its band
\* (green below 400, yellow from 400 and below 800, red from 800); the payload
\* carries that same value and an image that decodes to that colour.
C1_SeverityColour ==
    image # << >> =>
        /\ latest_fecal = historical_data[Len(historical_data)].fecal_coliform
        /\ Uniform(image, BandColour(latest_fecal))
        /\ "latest_fecal" \in DOMAIN data =>
              /\ data.latest_fecal = latest_fecal
              /\ Uniform(PngDecode(Base64Decode(data.satellite_image_base64)),
                         BandColour(data.latest_fecal))

C1_Witness ==
    /\ pc = "respond"
    /\ data.latest_fecal = 400
    /\ image[1][1] = Colour(1, 1, 0)

\* C2: on a history of n >= 2 observations the forecast has 3 points, point i
\* being last + i * (mean of the n - 1 consecutive differences), every point
\* taken from last and none clamped; with a constant difference d the points
\* are last + d, last + 2d and last + 3d.
C2_LinearForecast ==
    (pc # "forecast" /\ Len(historical_data) >= 2) =>
        LET h == historical_data
            n == Len(h)
            last == h[n].fecal_coliform
            first == h[1].fecal_coliform
            d == h[2].fecal_coliform - h[1].fecal_coliform
            constant == \A j \in 1..(n - 1) :
                           h[j + 1].fecal_coliform - h[j].fecal_coliform = d
        IN  /\ Len(forecast_data) = 3
            /\ \A i \in 1..3 :
                  LET f == forecast_data[i].forecast_fecal
                  IN  /\ f.den > 0
                      /\ f.num * (n - 1) =
                            f.den * (last * (n - 1) + i * (last - first))
                      /\ constant => f.num = f.den * (last + d * i)

C2_Witness ==
    /\ pc = "classify"
    /\ Len(historical_data) = 3
    /\ historical_data[1].fecal_coliform = 400
    /\ historical_data[2].fecal_coliform = 250
    /\ historical_data[3].fecal_coliform = 100
    /\ forecast_data[3].forecast_fecal.num < 0
    /\ forecast_data[3].forecast_fecal.den > 0

\* C3: when generate_data has returned its dict, the endpoint answers with
\* the success body: status 200, 30 historical entries and 3 forecast entries
\* whose dates are ISO-8601 strings, the image and latest_fecal.
C3_SuccessBody ==
    (pc = "done" /\ "latest_fecal" \in DOMAIN data) =>
        /\ response.status = 200
        /\ DOMAIN response.body = {"historical_data", "forecast_data",
                                   "satellite_image_base64", "latest_fecal"}
        /\ Len(response.body.historical_data) = 30
        /\ Len(response.body.forecast_data) = 3
        /\ \A i \in 1..30 : response.body.historical_data[i].date.type = "str"
        /\ \A i \in 1..3 : response.body.forecast_data[i].date.type = "str"

\* C4: a fault raised anywhere in the request never leaves the endpoint: it is
\* being handled or the request has ended, and then the response has status
\* 500, its body is exactly {error: message} and the fault has been logged.
C4_ErrorEnvelope ==
    /\ pc # "unhandled"
    /\ exc # NoExc => pc \in {"generate_except", "endpoint_except", "done"}
    /\ (pc = "done" /\ exc # NoExc) =>
          /\ response.status = 500
          /\ DOMAIN response.body = {"error"}
          /\ response.body.error = <<"Internal Server Error: ", exc.msg>>
          /\ log # << >>
          /\ log[Len(log)] = <<"Error in /data endpoint: ", exc.msg>>

C4_Witness ==
    /\ pc = "done"
    /\ exc.type = "Exception"
    /\ response.status = 500
    /\ Len(log) = 2

AlertsShown == ui.pc \in {"footer", "done"}

HasWarning ==
    \E i \in DOMAIN ui.alerts : ui.alerts[i] = WarningAlert(ui.threshold)

HasCritical == \E i \in DOMAIN ui.alerts : ui.alerts[i] = CriticalAlert

\* C5: check_alerts returns 0, 1 or 2 alerts; the warning is there iff some
\* forecast value is strictly above the threshold, the critical alert iff some
\* forecast value is strictly above 800, and the warning comes first.
C5_AlertList ==
    AlertsShown =>
        LET above(level) == \E i \in DOMAIN ui.forecast_data :
                               ui.forecast_data[i].forecast_fecal > level
            count(b) == IF b THEN 1 ELSE 0
        IN  /\ Len(ui.alerts) = count(above(ui.threshold)) + count(above(800))
            /\ above(ui.threshold) =>
                  ui.alerts[1] = WarningAlert(ui.threshold)
            /\ above(800) => ui.alerts[Len(ui.alerts)] = CriticalAlert

C5_Witness ==
    /\ ui.pc = "done"
    /\ ui.threshold = 400
    /\ ui.forecast_data[1].forecast_fecal = 390
    /\ ui.forecast_data[2].forecast_fecal = 410
    /\ ui.forecast_data[3].forecast_fecal = 790
    /\ ui.alerts = <<WarningAlert(400)>>

C7_FetchFailureStops ==
    ui.fetch \in {"ConnectionError", "HTTPError"} =>
        /\ ui.pc \in {"fetch_except", "stopped"}
        /\ Range(ui.shown) \subseteq {"sidebar", "error"}
        /\ ui.pc = "stopped" => ui.shown = <<"sidebar", "error">>
        /\ ui.alerts = << >>
        /\ ui.map_color = "none"

C7_Witness ==
    /\ ui.pc = "stopped"
    /\ ui.fetch = "HTTPError"
    /\ ui.status = 500

C9_FecalFloor ==
    historical_data # << >> =>
        /\ Len(historical_data) = 30
        /\ \A i \in 1..30 :
              /\ historical_data[i].rainfall >= 0
              /\ historical_data[i].fecal_coliform >= 100
              /\ 2 * historical_data[i].fecal_coliform >=
                    200 + historical_data[i].rainfall

C9_Witness ==
    /\ pc = "forecast"
    /\ historical_data[1].fecal_coliform = 100
    /\ historical_data[30].fecal_coliform > 1000

\* C10: with a threshold in [0, 800] the critical alert never comes without
\* the warning; a critical alert alone needs a threshold above 800.
C10_CriticalImpliesWarning ==
    AlertsShown =>
        /\ (ui.threshold >= 0 /\ ui.threshold <= 800 /\ HasCritical)
              => HasWarning
        /\ (HasCritical /\ ~HasWarning) => ui.threshold > 800

C10_Witness ==
    /\ ui.pc = "done"
    /\ ui.threshold = 800
    /\ ui.alerts = <<WarningAlert(800), CriticalAlert>>

\* a critical alert on its own, under a threshold above 800
CriticalAlone ==
    /\ ui.pc = "done"
    /\ ui.threshold = 900
    /\ ui.alerts = <<CriticalAlert>>

====
